---- MODULE Spec2Model ----
(***************************************************************************)
(* A model of the hawiah SQLite driver (src/src/drivers/SQLiteDriver.ts,   *)
(* the class that starts at line 337: optional schema, typed columns plus  *)
(* an _extras payload, or one _data blob per row).                         *)
(*                                                                         *)
(* The store instance is db/schema/dbType; the database file is            *)
(* tableExists/columns/table (rows in rowid order); the engine's open      *)
(* transaction is txn; the clock is now; calls suspended at their          *)
(* `await this.get(query)` are in pending; last is the outcome of the      *)
(* call that completed most recently.  inserted is a history variable:     *)
(* the record set() returned for every row that no later call targeted.    *)
(* indexes are the file's indexes: the table each index name is on.        *)
(* abandoned: a connection the store no longer refers to, left open by a   *)
(* second connect(), holds the file's write lock for its transaction.      *)
(***************************************************************************)
EXTENDS Integers, Sequences, FiniteSets, TLC

VARIABLES db, schema, dbType, tableExists, columns, table, txn, now, pending, last,
          inserted, indexes, abandoned

vars ==
    <<db, schema, dbType, tableExists, columns, table, txn, now, pending, last, inserted,
      indexes, abandoned>>

(***************************************************************************)
(* Bounds of the model.                                                    *)
(***************************************************************************)
\* the clock (Date.now(), new Date()) takes the values 0..MaxClock
MaxClock == 1
\* set() is not called once the table holds MaxRows rows
MaxRows == 2
\* at most MaxPending calls are suspended at their await at a time
MaxPending == 2

(***************************************************************************)
(* JavaScript values: a type tag (typeof, with null and Buffer told apart) *)
(* and the value's text.                                                   *)
(***************************************************************************)
Str(s) == [t |-> "string", v |-> s]
Num(s) == [t |-> "number", v |-> s]
Bool(b) == [t |-> "boolean", v |-> IF b THEN "true" ELSE "false"]
Null == [t |-> "null", v |-> "null"]
Undefined == [t |-> "undefined", v |-> "undefined"]
\* Buffer.from([1])
Buf == [t |-> "buffer", v |-> "01"]

\* an object literal with no keys
EmptyObject == <<>>

\* record[key] of a JavaScript object: undefined for a key it does not have
Field(record, key) == IF key \in DOMAIN record THEN record[key] ELSE Undefined

\* {...a, ...b}: the keys of both, b's value where both have the key
Spread(a, b) ==
    [k \in (DOMAIN a) \cup (DOMAIN b) |-> IF k \in DOMAIN b THEN b[k] ELSE a[k]]

\* a !== b is false: same type and value, and for objects the same reference
\* (a value read from the database is never the caller's own object)
StrictEquals(a, b) == a = b /\ a.t \notin {"buffer", "object"}

\* new Date().toISOString() at clock value n
toISOString(n) == "T" \o ToString(n)

(***************************************************************************)
(* JSON text, as its syntax tree: a text that is no valid JSON, or an      *)
(* object whose members are JSON values (kind j, text s).                  *)
(***************************************************************************)
\* JSON.stringify of one value: a Buffer is written through its toJSON()
JSONstringifyValue(v) ==
    CASE v.t = "string" -> [j |-> "string", s |-> v.v]
      [] v.t = "number" -> [j |-> "number", s |-> v.v]
      [] v.t = "boolean" -> [j |-> "literal", s |-> v.v]
      [] v.t = "null" -> [j |-> "literal", s |-> "null"]
      [] v.t = "buffer" -> [j |-> "object", s |-> "{type:Buffer,data:[1]}"]
      [] v.t = "object" -> [j |-> "object", s |-> v.v]

\* JSON.stringify of an object: members whose value is undefined are left out
JSONstringify(record) ==
    [valid |-> TRUE,
     members |-> [k \in {f \in DOMAIN record : record[f].t # "undefined"} |->
                     JSONstringifyValue(record[k])]]

\* JSON.parse of one JSON value
JSONparseValue(m) ==
    CASE m.j = "string" -> Str(m.s)
      [] m.j = "number" -> Num(m.s)
      [] m.j = "literal" /\ m.s = "null" -> Null
      [] m.j = "literal" /\ m.s # "null" -> [t |-> "boolean", v |-> m.s]
      [] m.j = "object" -> [t |-> "object", v |-> m.s]

\* JSON.parse succeeds on the text (it throws SyntaxError otherwise)
JSONparses(text) == text.valid

\* JSON.parse of a valid text
JSONparse(text) == [k \in DOMAIN text.members |-> JSONparseValue(text.members[k])]

\* a payload that is not JSON, e.g. '{' written by a raw statement
CorruptText == [valid |-> FALSE, members |-> <<>>]

(***************************************************************************)
(* Type tags are strings of characters, so that toUpperCase() and          *)
(* includes() are computed and not looked up.                              *)
(***************************************************************************)
LowerCase ==
    <<"a", "b", "c", "d", "e", "f", "g", "h", "i", "j", "k", "l", "m",
      "n", "o", "p", "q", "r", "s", "t", "u", "v", "w", "x", "y", "z">>
UpperCase ==
    <<"A", "B", "C", "D", "E", "F", "G", "H", "I", "J", "K", "L", "M",
      "N", "O", "P", "Q", "R", "S", "T", "U", "V", "W", "X", "Y", "Z">>

\* one character of String.prototype.toUpperCase()
toUpperCaseChar(c) ==
    IF \E i \in 1..Len(LowerCase) : LowerCase[i] = c
    THEN UpperCase[CHOOSE i \in 1..Len(LowerCase) : LowerCase[i] = c]
    ELSE c

\* String.prototype.toUpperCase()
toUpperCase(str) == [i \in 1..Len(str) |-> toUpperCaseChar(str[i])]

\* String.prototype.includes(sub)
includes(str, sub) ==
    \E i \in 1..(Len(str) - Len(sub) + 1) : SubSeq(str, i, i + Len(sub) - 1) = sub

\* a bare type tag, and a structured descriptor {type: tag}
Tag(str) == [object |-> FALSE, type |-> str]
Descriptor(str) == [object |-> TRUE, type |-> str]

\* the text the mapper examines: type.type of a descriptor whose type is truthy,
\* else String(type), which for an object is '[object Object]'
typeText(type) ==
    IF type.object /\ type.type = <<>>
    THEN <<"[", "o", "b", "j", "e", "c", "t", " ", "O", "b", "j", "e", "c", "t", "]">>
    ELSE type.type

\* the mapper without its toUpperCase()
mapHawiahTypeToSQLCaseSensitive(type) ==
    LET t == typeText(type)
    IN  IF \/ includes(t, <<"S", "T", "R", "I", "N", "G">>)
           \/ includes(t, <<"T", "E", "X", "T">>)
           \/ includes(t, <<"E", "M", "A", "I", "L">>)
           \/ includes(t, <<"U", "R", "L">>)
           \/ includes(t, <<"U", "U", "I", "D">>)
           \/ includes(t, <<"C", "H", "A", "R">>)
        THEN "TEXT"
        ELSE IF includes(t, <<"N", "U", "M", "B", "E", "R">>)
        THEN (IF includes(t, <<"I", "N", "T">>) THEN "INTEGER" ELSE "REAL")
        ELSE IF includes(t, <<"B", "O", "O", "L", "E", "A", "N">>) THEN "INTEGER"
        ELSE IF includes(t, <<"D", "A", "T", "E">>) THEN "TEXT"
        ELSE IF \/ includes(t, <<"B", "L", "O", "B">>)
                \/ includes(t, <<"B", "U", "F", "F", "E", "R">>)
        THEN "BLOB"
        ELSE "TEXT"

\* mapHawiahTypeToSQL: the SQLite column type of a schema type
mapHawiahTypeToSQL(type) ==
    LET t == toUpperCase(typeText(type))
    IN  IF \/ includes(t, <<"S", "T", "R", "I", "N", "G">>)
           \/ includes(t, <<"T", "E", "X", "T">>)
           \/ includes(t, <<"E", "M", "A", "I", "L">>)
           \/ includes(t, <<"U", "R", "L">>)
           \/ includes(t, <<"U", "U", "I", "D">>)
           \/ includes(t, <<"C", "H", "A", "R">>)
        THEN "TEXT"
        ELSE IF includes(t, <<"N", "U", "M", "B", "E", "R">>)
        THEN (IF includes(t, <<"I", "N", "T">>) THEN "INTEGER" ELSE "REAL")
        ELSE IF includes(t, <<"B", "O", "O", "L", "E", "A", "N">>) THEN "INTEGER"
        ELSE IF includes(t, <<"D", "A", "T", "E">>) THEN "TEXT"
        ELSE IF \/ includes(t, <<"B", "L", "O", "B">>)
                \/ includes(t, <<"B", "U", "F", "F", "E", "R">>)
        THEN "BLOB"
        ELSE "TEXT"

(***************************************************************************)
(* The schemas a store is given, and no schema (this.schema = null).       *)
(***************************************************************************)
NoSchema == [present |-> FALSE, definition |-> <<>>]

\* {a: 'NUMBER', b: 'BOOLEAN'}
SchemaUpper ==
    [present |-> TRUE,
     definition |-> [k \in {"a", "b"} |->
        IF k = "a" THEN Tag(<<"N", "U", "M", "B", "E", "R">>)
        ELSE Tag(<<"B", "O", "O", "L", "E", "A", "N">>)]]

\* {a: 'number', b: 'boolean'}
SchemaLower ==
    [present |-> TRUE,
     definition |-> [k \in {"a", "b"} |->
        IF k = "a" THEN Tag(<<"n", "u", "m", "b", "e", "r">>)
        ELSE Tag(<<"b", "o", "o", "l", "e", "a", "n">>)]]

\* {a: {type: 'NUMBER'}, b: {type: 'BOOLEAN'}}
SchemaStructured ==
    [present |-> TRUE,
     definition |-> [k \in {"a", "b"} |->
        IF k = "a" THEN Descriptor(<<"N", "U", "M", "B", "E", "R">>)
        ELSE Descriptor(<<"B", "O", "O", "L", "E", "A", "N">>)]]

Schemas == {SchemaUpper, SchemaLower, SchemaStructured}

\* this.schema && this.dbType === 'sql'
SqlMode == schema.present /\ dbType = "sql"

\* the table was created with schema columns and _extras (else with _data alone)
HybridTable == columns # <<>>

\* the store's mode is the one the table was created in; otherwise a statement
\* that names _extras, _data or a schema column does not compile
ModeFitsTable == SqlMode <=> HybridTable

(***************************************************************************)
(* Values on their way into and out of a column.                           *)
(***************************************************************************)
\* prepareValue: booleans to 0/1, objects other than Buffers to JSON text
prepareValue(value) ==
    CASE value.t \in {"null", "undefined"} -> Null
      [] value.t = "boolean" -> (IF value.v = "true" THEN Num("1") ELSE Num("0"))
      [] value.t = "object" -> Str(value.v)
      [] OTHER -> value

\* texts that SQLite reads as a number
NumericText == {"0", "1"}

\* stmt.run binding a prepared value to a column of the given type, as the value
\* is read back from it: better-sqlite3 binds a number as a REAL, a string as
\* TEXT, a Buffer as a BLOB; a TEXT column keeps a number as its text, an
\* INTEGER or REAL column turns a numeric text into a number
columnValue(sqlType, value) ==
    CASE value.t = "number" /\ sqlType = "TEXT" -> Str(value.v \o ".0")
      [] value.t = "string" /\ sqlType \in {"INTEGER", "REAL"} /\ value.v \in NumericText ->
            Num(value.v)
      [] OTHER -> value

ReservedKeys == {"_id", "_createdAt", "_updatedAt"}

\* property names a plain object inherits from Object.prototype
ObjectPrototype == {"constructor", "toString", "valueOf", "hasOwnProperty"}

\* `key in definition`: an own key of the definition or an inherited property
inDefinition(key) == key \in DOMAIN schema.definition \/ key \in ObjectPrototype

\* splitData: the fields `in` the definition, and the other fields that are not reserved
splitData(data) ==
    IF ~schema.present
    THEN [schemaData |-> EmptyObject, extraData |-> data]
    ELSE [schemaData |-> [k \in {f \in DOMAIN data : inDefinition(f)} |-> data[k]],
          extraData |-> [k \in {f \in DOMAIN data :
                                   ~inDefinition(f) /\ f \notin ReservedKeys} |->
                             data[k]]]

\* the text of a _data column, as a string value
DataText == Str("_data text")

\* SELECT *: a row as the object better-sqlite3 returns, without its _extras entry;
\* a row of a table created without a schema has its _data column
RowObject(row) ==
    Spread(Spread(row.cols, IF HybridTable THEN <<>> ELSE [k \in {"_data"} |-> DataText]),
           [k \in ReservedKeys |->
               IF k = "_id" THEN Str(row._id)
               ELSE IF k = "_createdAt" THEN Str(row._createdAt)
               ELSE Str(row._updatedAt)])

\* the schema type mergeData compares with 'boolean': a structured descriptor's type
DeclaredType(key) == schema.definition[key].type

\* mergeData: the row's columns, 0/1 of a field declared 'boolean' turned into a
\* boolean, overlaid with the parsed _extras ({} when the text does not parse)
mergeData(row) ==
    LET rest == RowObject(row)
        extras == IF HybridTable /\ JSONparses(row.payload)
                  THEN JSONparse(row.payload) ELSE EmptyObject
        cast == [k \in DOMAIN rest |->
                    IF /\ schema.present
                       /\ k \in DOMAIN schema.definition
                       /\ DeclaredType(k) = <<"b", "o", "o", "l", "e", "a", "n">>
                       /\ rest[k].t = "number"
                    THEN Bool(rest[k].v = "1")
                    ELSE rest[k]]
    IN  Spread(cast, extras)

(***************************************************************************)
(* Rows.  A row is [_id, cols, payload, _createdAt, _updatedAt]: cols are  *)
(* the schema columns (none in a schema-less table) and payload is the     *)
(* text of _extras (with a schema) or of _data (without).                  *)
(***************************************************************************)
\* Math.random().toString(36).substring(2, 15)
Random == {"p", "q"}

\* generateId: `${Date.now()}_${random}`
generateId(clock, random) == ToString(clock) \o "_" \o random

\* ensureConnected with its check removed
ensureConnectedUnchecked == TRUE

\* ensureConnected does not throw
ensureConnected == db

\* matchesQuery: every entry of the query strictly equals the record's field
matchesQuery(record, query) ==
    \A key \in DOMAIN query : StrictEquals(Field(record, key), query[key])

\* Array.prototype.filter with matchesQuery
RECURSIVE filterRecords(_, _)
filterRecords(records, query) ==
    IF records = <<>> THEN <<>>
    ELSE (IF matchesQuery(Head(records), query) THEN <<Head(records)>> ELSE <<>>)
            \o filterRecords(Tail(records), query)

\* a value is truthy
Truthy(value) ==
    /\ value.t \notin {"undefined", "null"}
    /\ value \notin {Bool(FALSE), Num("0"), Str("")}

\* WHERE _id = ? with a bound value: the rows of tbl whose _id column equals it
WhereId(tbl, value) == {i \in 1..Len(tbl) : value.t = "string" /\ tbl[i]._id = value.v}

\* get throws: the table is missing (prepare fails), or, without a schema,
\* JSON.parse fails on some row's _data
getError(exists, tbl) ==
    IF ~exists THEN "SqliteError"
    ELSE IF ~SqlMode /\ HybridTable THEN "SqliteError"
    ELSE IF ~SqlMode /\ \E i \in 1..Len(tbl) : ~JSONparses(tbl[i].payload) THEN "SyntaxError"
    ELSE "none"

\* get, when it does not throw: every row materialized, then filtered in memory
getRecords(tbl, query) ==
    LET records == [i \in 1..Len(tbl) |->
                       IF SqlMode THEN mergeData(tbl[i]) ELSE JSONparse(tbl[i].payload)]
    IN  IF DOMAIN query = {} THEN records ELSE filterRecords(records, query)

\* getOne takes the primary-key lookup
getOneById(query) == Truthy(Field(query, "_id"))

\* getOne throws: as get on the fallback path; on the lookup, a missing table,
\* or JSON.parse failing on the row found
getOneError(exists, tbl, query) ==
    IF ~getOneById(query) THEN getError(exists, tbl)
    ELSE IF ~exists THEN "SqliteError"
    ELSE IF ~SqlMode /\ HybridTable THEN "SqliteError"
    ELSE IF ~SqlMode /\ \E i \in WhereId(tbl, query["_id"]) : ~JSONparses(tbl[i].payload)
    THEN "SyntaxError"
    ELSE "none"

\* getOne, when it does not throw: <<>> for null, else the one record
getOneRecord(tbl, query) ==
    IF getOneById(query)
    THEN LET found == WhereId(tbl, query["_id"])
         IN  IF found = {} THEN <<>>
             ELSE LET row == tbl[CHOOSE i \in found : TRUE]
                  IN  <<IF SqlMode THEN mergeData(row) ELSE JSONparse(row.payload)>>
    ELSE LET results == getRecords(tbl, query)
         IN  IF Len(results) > 0 THEN <<results[1]>> ELSE <<>>

(***************************************************************************)
(* The statements set, update and delete run.                              *)
(***************************************************************************)
\* the schema columns of a row written from schemaData: each value prepared and
\* bound; a column the statement does not name keeps `old`
boundColumns(schemaData, old) ==
    [k \in DOMAIN columns |->
        IF k \in DOMAIN schemaData
        THEN columnValue(columns[k], prepareValue(schemaData[k]))
        ELSE old[k]]

\* the statement set() or update() builds for the record names, as a column, a
\* schemaData key the table has no column for
unknownColumn(record) ==
    SqlMode /\ \E k \in DOMAIN splitData(record).schemaData : k \notin DOMAIN columns

\* the record set() builds and returns
newRecord(data, id, iso) ==
    Spread(data, [k \in ReservedKeys |-> IF k = "_id" THEN Str(id) ELSE Str(iso)])

\* the row set() inserts for that record
newRow(record, id, iso) ==
    IF SqlMode
    THEN LET split == splitData(record)
         IN  [_id |-> id,
              cols |-> boundColumns(split.schemaData, [k \in DOMAIN columns |-> Null]),
              payload |-> JSONstringify(split.extraData),
              _createdAt |-> iso, _updatedAt |-> iso]
    ELSE [_id |-> id, cols |-> <<>>, payload |-> JSONstringify(record),
          _createdAt |-> iso, _updatedAt |-> iso]

\* the object update() builds for one record it read
updatedRecord(record, data, iso) ==
    Spread(Spread(record, data), [k \in {"_updatedAt"} |-> Str(iso)])

\* the UPDATE ... WHERE _id = record._id that update() runs for one record
updateRow(tbl, record, data, iso) ==
    LET updated == updatedRecord(record, data, iso)
        split == splitData(updated)
        hit == WhereId(tbl, Field(record, "_id"))
    IN  [i \in 1..Len(tbl) |->
            IF i \notin hit THEN tbl[i]
            ELSE IF SqlMode
            THEN [tbl[i] EXCEPT !.cols = boundColumns(split.schemaData, tbl[i].cols),
                                !.payload = JSONstringify(split.extraData),
                                !._updatedAt = updated["_updatedAt"].v]
            ELSE [tbl[i] EXCEPT !.payload = JSONstringify(updated),
                                !._updatedAt = updated["_updatedAt"].v]]

\* update()'s loop over the records it read
RECURSIVE updateRows(_, _, _, _)
updateRows(tbl, records, data, iso) ==
    IF records = <<>> THEN tbl
    ELSE updateRows(updateRow(tbl, Head(records), data, iso), Tail(records), data, iso)

\* the DELETE ... WHERE _id = record._id that delete() runs for one record
deleteRow(tbl, record) ==
    LET hit == WhereId(tbl, Field(record, "_id"))
        RECURSIVE keep(_)
        keep(i) == IF i > Len(tbl) THEN <<>>
                   ELSE (IF i \in hit THEN <<>> ELSE <<tbl[i]>>) \o keep(i + 1)
    IN  keep(1)

\* delete()'s loop over the records it read
RECURSIVE deleteRows(_, _)
deleteRows(tbl, records) ==
    IF records = <<>> THEN tbl
    ELSE deleteRows(deleteRow(tbl, Head(records)), Tail(records))

(***************************************************************************)
(* The store.                                                              *)
(***************************************************************************)
NoTransaction ==
    [active |-> FALSE, tableExists |-> FALSE, columns |-> <<>>, table |-> <<>>,
     indexes |-> <<>>]

\* this.tableName (the default), and the table of another store on the same file
tableName == "data"
otherTable == "other"

\* the two CREATE INDEX IF NOT EXISTS of connect, for a table: a name that is
\* taken, by an index on whatever table, is left as it is
createIndexes(idx, tbl) ==
    [name \in (DOMAIN idx) \cup {"idx_createdAt", "idx_updatedAt"} |->
        IF name \in DOMAIN idx THEN idx[name] ELSE tbl]

\* DROP TABLE drops the indexes on the table
dropIndexes(idx, tbl) == [name \in {n \in DOMAIN idx : idx[n] # tbl} |-> idx[name]]

\* how a call ended: the error it threw, "none" when it returned
Outcome(op, err) == [op |-> op, err |-> err]

Init ==
    /\ db = FALSE
    /\ schema = NoSchema
    /\ dbType = "nosql"
    /\ tableExists = FALSE
    /\ columns = <<>>
    /\ table = <<>>
    /\ txn = NoTransaction
    /\ now = 0
    /\ pending = <<>>
    /\ last = Outcome("constructor", "none")
    /\ inserted = <<>>
    /\ indexes = <<>>
    /\ abandoned = FALSE

\* a call that throws err and changes nothing
Throws(op, err) ==
    /\ last' = Outcome(op, err)
    /\ UNCHANGED <<abandoned, indexes, db, schema, dbType, tableExists, columns, table, txn,
                   now, pending,
                   inserted>>

\* a call that returns and changes nothing
Returns(op) == Throws(op, "none")

\* the start of every operation: ensureConnected() throws, or the operation goes
\* on to use this.db!, which throws a TypeError when this.db is null
Connected(op, body) ==
    IF ~ensureConnected THEN Throws(op, "NotConnected")
    ELSE IF ~db THEN Throws(op, "TypeError")
    ELSE body

\* the _id columns of the rows whose record matches the query
matchedIds(tbl, query) ==
    LET records == getRecords(tbl, EmptyObject)
    IN  {tbl[i]._id : i \in {j \in 1..Len(tbl) : matchesQuery(records[j], query)}}

\* inserted without the rows of the given ids
Forget(ids) == [id \in (DOMAIN inserted) \ ids |-> inserted[id]]

\* the caller attaches the schema before the first connect
BeforeTable == ~db /\ ~tableExists

\* the clock advances
Tick ==
    /\ now < MaxClock
    /\ now' = now + 1
    /\ UNCHANGED <<abandoned, indexes, db, schema, dbType, tableExists, columns, table, txn,
                   pending, last,
                   inserted>>

\* setSchema
setSchema(s) ==
    /\ schema' = s
    /\ dbType' = "sql"
    /\ last' = Outcome("setSchema", "none")
    /\ UNCHANGED <<abandoned, indexes, db, tableExists, columns, table, txn, now, pending,
                   inserted>>

\* the table changed inside the open transaction, which then holds the write lock
Wrote ==
    /\ txn.active
    /\ <<tableExists, columns, table, indexes>> #
          <<txn.tableExists, txn.columns, txn.table, txn.indexes>>

\* the caller does not connect inside a transaction it has open
OutsideTransaction == ~txn.active

\* connect: a new connection replaces this.db and the one before is not closed,
\* so that its open transaction stays open and the new connection reads the
\* committed table; then CREATE TABLE IF NOT EXISTS with the schema's columns and
\* the two CREATE INDEX IF NOT EXISTS, which fail when they have to write and an
\* abandoned connection holds the write lock
connect ==
    LET open == db /\ txn.active
        exists == IF open THEN txn.tableExists ELSE tableExists
        cols == IF open THEN txn.columns ELSE columns
        rows == IF open THEN txn.table ELSE table
        idx == IF open THEN txn.indexes ELSE indexes
        locked == abandoned \/ (db /\ Wrote)
        writes == ~exists \/ createIndexes(idx, tableName) # idx
    IN  /\ db' = TRUE
        /\ txn' = NoTransaction
        /\ abandoned' = locked
        /\ inserted' = IF open THEN <<>> ELSE inserted
        /\ IF writes /\ locked
           THEN /\ tableExists' = exists
                /\ columns' = cols
                /\ table' = rows
                /\ indexes' = idx
                /\ last' = Outcome("connect", "SqliteError")
           ELSE /\ tableExists' = TRUE
                /\ columns' = IF exists THEN cols
                              ELSE IF SqlMode
                              THEN [k \in DOMAIN schema.definition |->
                                       mapHawiahTypeToSQL(schema.definition[k])]
                              ELSE <<>>
                /\ table' = IF exists THEN rows ELSE <<>>
                /\ indexes' = createIndexes(idx, tableName)
                /\ last' = Outcome("connect", "none")
        /\ UNCHANGED <<schema, dbType, now, pending>>

\* the abandoned connection is finalized: its transaction is rolled back
finalize ==
    /\ abandoned
    /\ abandoned' = FALSE
    /\ UNCHANGED <<db, schema, dbType, tableExists, columns, table, txn, now, pending, last,
                   inserted, indexes>>

\* disconnect: closes the connection, which rolls an open transaction back
disconnect ==
    /\ db' = FALSE
    /\ IF db /\ txn.active
       THEN /\ tableExists' = txn.tableExists
            /\ columns' = txn.columns
            /\ table' = txn.table
            /\ indexes' = txn.indexes
            /\ txn' = NoTransaction
            /\ inserted' = <<>>
       ELSE UNCHANGED <<abandoned, indexes, tableExists, columns, table, txn, inserted>>
    /\ last' = Outcome("disconnect", "none")
    /\ UNCHANGED <<abandoned, schema, dbType, now, pending>>

\* set: the INSERT fails when the table is missing or the _id is taken
set(data) ==
    \E random \in Random :
        LET id == generateId(now, random)
            iso == toISOString(now)
            record == newRecord(data, id, iso)
        IN  Connected("set",
                IF \/ ~tableExists
                   \/ ~ModeFitsTable
                   \/ abandoned
                   \/ unknownColumn(record)
                   \/ \E i \in 1..Len(table) : table[i]._id = id
                THEN Throws("set", "SqliteError")
                ELSE /\ Len(table) < MaxRows
                     /\ table' = Append(table, newRow(record, id, iso))
                     /\ last' = Outcome("set", "none")
                     /\ inserted' = Spread(inserted, [k \in {id} |-> record])
                     /\ UNCHANGED <<abandoned, indexes, db, schema, dbType, tableExists,
                                    columns, txn, now,
                                    pending>>)

\* get
get(query) ==
    Connected("get",
        IF getError(tableExists, table) # "none"
        THEN Throws("get", getError(tableExists, table))
        ELSE Returns("get"))

\* getOne
getOne(query) ==
    Connected("getOne",
        IF getOneError(tableExists, table, query) # "none"
        THEN Throws("getOne", getOneError(tableExists, table, query))
        ELSE Returns("getOne"))

\* what exists returns when it does not throw
existsResult(tbl, query) == getOneRecord(tbl, query) # <<>>

\* exists
exists(query) ==
    Connected("exists",
        IF getOneError(tableExists, table, query) # "none"
        THEN Throws("exists", getOneError(tableExists, table, query))
        ELSE Returns("exists"))

\* what count returns when it does not throw
countResult(tbl, query) ==
    IF DOMAIN query = {} THEN Len(tbl) ELSE Len(getRecords(tbl, query))

\* count: SELECT COUNT(*) for the empty query, else the length of get(query)
count(query) ==
    Connected("count",
        IF DOMAIN query = {}
        THEN (IF ~tableExists THEN Throws("count", "SqliteError") ELSE Returns("count"))
        ELSE IF getError(tableExists, table) # "none"
        THEN Throws("count", getError(tableExists, table))
        ELSE Returns("count"))

\* the part of update after `await this.get(query)`, run with the records read:
\* the error it throws, if it throws
updateWriteError(records, data) ==
    IF records = <<>> THEN "none"
    ELSE IF ~db THEN "TypeError"
    ELSE IF ~tableExists \/ ~ModeFitsTable \/ abandoned THEN "SqliteError"
    ELSE IF unknownColumn(Spread(Head(records), data)) THEN "SqliteError"
    ELSE "none"

\* the part of delete after `await this.get(query)`: prepare runs before the loop
deleteWriteError(records) ==
    IF ~db THEN "TypeError"
    ELSE IF ~tableExists \/ (records # <<>> /\ abandoned) THEN "SqliteError"
    ELSE "none"

\* what update returns: count++ once per record read
updateResult(records) == Len(records)

\* what delete returns: count++ once per record read
deleteResult(records) == Len(records)

\* update, called and awaited
update(query, data) ==
    Connected("update",
        IF getError(tableExists, table) # "none"
        THEN Throws("update", getError(tableExists, table))
        ELSE LET records == getRecords(table, query)
             IN  IF updateWriteError(records, data) # "none"
                 THEN Throws("update", updateWriteError(records, data))
                 ELSE /\ table' = updateRows(table, records, data, toISOString(now))
                      /\ last' = Outcome("update", "none")
                      /\ inserted' = Forget(matchedIds(table, query))
                      /\ UNCHANGED <<abandoned, indexes, db, schema, dbType, tableExists,
                                     columns, txn, now,
                                     pending>>)

\* delete, called and awaited
delete(query) ==
    Connected("delete",
        IF getError(tableExists, table) # "none"
        THEN Throws("delete", getError(tableExists, table))
        ELSE LET records == getRecords(table, query)
             IN  IF deleteWriteError(records) # "none"
                 THEN Throws("delete", deleteWriteError(records))
                 ELSE /\ table' = deleteRows(table, records)
                      /\ last' = Outcome("delete", "none")
                      /\ inserted' = Forget(matchedIds(table, query))
                      /\ UNCHANGED <<abandoned, indexes, db, schema, dbType, tableExists,
                                     columns, txn, now,
                                     pending>>)

\* clear: DELETE FROM table
clear ==
    Connected("clear",
        IF ~tableExists \/ abandoned THEN Throws("clear", "SqliteError")
        ELSE /\ table' = <<>>
             /\ last' = Outcome("clear", "none")
             /\ inserted' = <<>>
             /\ UNCHANGED <<abandoned, indexes, db, schema, dbType, tableExists, columns,
                            txn, now, pending>>)

\* drop: DROP TABLE IF EXISTS
drop ==
    Connected("drop",
        IF tableExists /\ abandoned THEN Throws("drop", "SqliteError")
        ELSE /\ tableExists' = FALSE
             /\ columns' = <<>>
             /\ table' = <<>>
             /\ indexes' = dropIndexes(indexes, tableName)
             /\ last' = Outcome("drop", "none")
             /\ inserted' = <<>>
             /\ UNCHANGED <<abandoned, db, schema, dbType, txn, now, pending>>)

\* vacuum: VACUUM is refused inside a transaction
vacuum ==
    Connected("vacuum",
        IF txn.active \/ abandoned THEN Throws("vacuum", "SqliteError")
        ELSE Returns("vacuum"))

\* analyze
analyze == Connected("analyze", Returns("analyze"))

\* beginTransaction: BEGIN TRANSACTION is refused inside a transaction
beginTransaction ==
    Connected("beginTransaction",
        IF txn.active THEN Throws("beginTransaction", "SqliteError")
        ELSE /\ txn' = [active |-> TRUE, tableExists |-> tableExists,
                        columns |-> columns, table |-> table, indexes |-> indexes]
             /\ last' = Outcome("beginTransaction", "none")
             /\ UNCHANGED <<abandoned, indexes, db, schema, dbType, tableExists, columns,
                            table, now, pending,
                            inserted>>)

\* commit: COMMIT is refused outside a transaction
commit ==
    Connected("commit",
        IF ~txn.active THEN Throws("commit", "SqliteError")
        ELSE /\ txn' = NoTransaction
             /\ last' = Outcome("commit", "none")
             /\ UNCHANGED <<abandoned, indexes, db, schema, dbType, tableExists, columns,
                            table, now, pending,
                            inserted>>)

\* rollback: ROLLBACK is refused outside a transaction
rollback ==
    Connected("rollback",
        IF ~txn.active THEN Throws("rollback", "SqliteError")
        ELSE /\ tableExists' = txn.tableExists
             /\ columns' = txn.columns
             /\ table' = txn.table
             /\ indexes' = txn.indexes
             /\ txn' = NoTransaction
             /\ last' = Outcome("rollback", "none")
             /\ inserted' = <<>>
             /\ UNCHANGED <<abandoned, db, schema, dbType, now, pending>>)

\* the raw statements a caller passes: one that does not parse, one that reads,
\* and one that overwrites the payload of the row at a position with text that
\* is no JSON
InvalidSql == [kind |-> "invalid", row |-> 0]
SelectSql == [kind |-> "select", row |-> 0]
CorruptSql(i) == [kind |-> "corrupt", row |-> i]

\* executeRaw: db.exec(sql)
executeRaw(sql) ==
    Connected("executeRaw",
        IF sql.kind = "invalid" \/ ~tableExists THEN Throws("executeRaw", "SqliteError")
        ELSE IF sql.kind = "select" THEN Returns("executeRaw")
        ELSE IF abandoned THEN Throws("executeRaw", "SqliteError")
        ELSE /\ table' = [i \in 1..Len(table) |->
                            IF i = sql.row THEN [table[i] EXCEPT !.payload = CorruptText]
                            ELSE table[i]]
             /\ last' = Outcome("executeRaw", "none")
             /\ inserted' = Forget({table[i]._id : i \in {sql.row} \cap (1..Len(table))})
             /\ UNCHANGED <<abandoned, indexes, db, schema, dbType, tableExists, columns,
                            txn, now, pending>>)

\* prepare: db.prepare(sql) compiles the statement and runs nothing
prepare(sql) ==
    Connected("prepare",
        IF sql.kind = "invalid" \/ ~tableExists THEN Throws("prepare", "SqliteError")
        ELSE Returns("prepare"))

(***************************************************************************)
(* Another store of the same file, for the table otherTable.               *)
(***************************************************************************)
\* its connect: CREATE TABLE IF NOT EXISTS and the two CREATE INDEX IF NOT EXISTS
otherConnect ==
    /\ ~txn.active /\ ~abandoned
    /\ indexes' = createIndexes(indexes, otherTable)
    /\ UNCHANGED <<db, schema, dbType, tableExists, columns, table, txn, now, pending, last,
                   inserted, abandoned>>

\* its drop: DROP TABLE IF EXISTS
otherDrop ==
    /\ ~txn.active /\ ~abandoned
    /\ indexes' = dropIndexes(indexes, otherTable)
    /\ UNCHANGED <<db, schema, dbType, tableExists, columns, table, txn, now, pending, last,
                   inserted, abandoned>>

(***************************************************************************)
(* Calls that are not awaited.  update and delete run up to their          *)
(* `await this.get(query)` when they are called: ensureConnected and the   *)
(* whole of get have run by then.  The rest of the call runs later, from   *)
(* the microtask queue, in the order of the calls.                         *)
(***************************************************************************)
\* a call as its caller made it, and the table it was made on
Issued(op, query, data, seen) == [op |-> op, query |-> query, data |-> data, seen |-> seen]

\* a call suspended at its await: the records get returned; and as history, the
\* ids of the rows they were read from, the table they were read from, and the
\* calls that were suspended ahead of this one
Suspended(op, query, data) ==
    [op |-> op, query |-> query, data |-> data,
     records |-> getRecords(table, query), targets |-> matchedIds(table, query),
     seen |-> table,
     ahead |-> [i \in 1..Len(pending) |->
                   Issued(pending[i].op, pending[i].query, pending[i].data, pending[i].seen)]]

\* the call up to its await
Call(op, query, data) ==
    /\ Len(pending) < MaxPending
    /\ Connected(op,
          IF getError(tableExists, table) # "none"
          THEN Throws(op, getError(tableExists, table))
          ELSE /\ pending' = Append(pending, Suspended(op, query, data))
               /\ UNCHANGED <<abandoned, indexes, db, schema, dbType, tableExists, columns,
                              table, txn, now,
                              last, inserted>>)

\* update(query, data), not awaited
updateCall(query, data) == Call("update", query, data)

\* delete(query), not awaited
deleteCall(query) == Call("delete", query, EmptyObject)

\* count(query), exists(query) and getOne(query) with a query that has keys and no
\* _id, not awaited: each is suspended at its `await this.get(query)` (exists at
\* its `await this.getOne(query)`) and uses this.db no more after it
countCall(query) == Call("count", query, EmptyObject)
existsCall(query) == Call("exists", query, EmptyObject)
getOneCall(query) == Call("getOne", query, EmptyObject)

\* the calls that write after their await
Writers == {"update", "delete"}

\* the table after the part of a call that follows its await
written(tbl, call) ==
    IF call.op = "update"
    THEN updateRows(tbl, call.records, call.data, toISOString(now))
    ELSE IF call.op = "delete"
    THEN deleteRows(tbl, call.records)
    ELSE tbl

\* the error the part of a call that follows its await throws
writeError(call) ==
    IF call.op = "update" THEN updateWriteError(call.records, call.data)
    ELSE IF call.op = "delete" THEN deleteWriteError(call.records)
    ELSE "none"

\* the oldest suspended call runs from its await to its end
resume ==
    /\ pending # <<>>
    /\ LET call == Head(pending)
       IN  /\ pending' = Tail(pending)
           /\ last' = Outcome(call.op, writeError(call))
           /\ IF writeError(call) # "none"
              THEN UNCHANGED <<table, inserted>>
              ELSE /\ table' = written(table, call)
                   /\ inserted' = IF call.op \in Writers THEN Forget(call.targets)
                                  ELSE inserted
    /\ UNCHANGED <<abandoned, indexes, db, schema, dbType, tableExists, columns, txn, now>>

(***************************************************************************)
(* The legacy driver (the class of lines 10-328, no schema): what each of  *)
(* its calls returns and writes, run on the rows of a table.               *)
(***************************************************************************)
\* legacy get: every _data parsed, then filtered
legacyGetRecords(tbl, query) ==
    LET parsed == [i \in 1..Len(tbl) |-> JSONparse(tbl[i].payload)]
    IN  IF DOMAIN query = {} THEN parsed ELSE filterRecords(parsed, query)

\* legacy get throws
legacyGetError(present, tbl) ==
    IF ~present THEN "SqliteError"
    ELSE IF \E i \in 1..Len(tbl) : ~JSONparses(tbl[i].payload) THEN "SyntaxError"
    ELSE "none"

\* legacy getOne, <<>> for null
legacyGetOneRecord(tbl, query) ==
    IF Truthy(Field(query, "_id"))
    THEN LET found == WhereId(tbl, query["_id"])
         IN  IF found = {} THEN <<>>
             ELSE <<JSONparse(tbl[CHOOSE i \in found : TRUE].payload)>>
    ELSE LET results == legacyGetRecords(tbl, query)
         IN  IF Len(results) > 0 THEN <<results[1]>> ELSE <<>>

\* legacy count
legacyCountResult(tbl, query) ==
    IF DOMAIN query = {} THEN Len(tbl) ELSE Len(legacyGetRecords(tbl, query))

\* the row legacy set() inserts for the record it builds
legacyNewRow(record, id, iso) ==
    [_id |-> id, cols |-> <<>>, payload |-> JSONstringify(record),
     _createdAt |-> iso, _updatedAt |-> iso]

\* the object legacy update() builds for one record: the patch spread over the
\* record, then _id and _createdAt assigned again from the record
legacyUpdatedRecord(record, data, iso) ==
    Spread(updatedRecord(record, data, iso),
           [k \in {"_id", "_createdAt"} |-> Field(record, k)])

\* the UPDATE legacy update() runs for one record
legacyUpdateRow(tbl, record, data, iso) ==
    LET updated == legacyUpdatedRecord(record, data, iso)
        hit == WhereId(tbl, Field(record, "_id"))
    IN  [i \in 1..Len(tbl) |->
            IF i \notin hit THEN tbl[i]
            ELSE [tbl[i] EXCEPT !.payload = JSONstringify(updated),
                                !._updatedAt = updated["_updatedAt"].v]]

\* legacy update()'s loop
RECURSIVE legacyUpdateRows(_, _, _, _)
legacyUpdateRows(tbl, records, data, iso) ==
    IF records = <<>> THEN tbl
    ELSE legacyUpdateRows(legacyUpdateRow(tbl, Head(records), data, iso),
                          Tail(records), data, iso)

(***************************************************************************)
(* The arguments callers pass.                                             *)
(***************************************************************************)
\* {a: 1, b: true, c: 'x'}
DataABC ==
    [k \in {"a", "b", "c"} |-> IF k = "a" THEN Num("1") ELSE IF k = "b" THEN Bool(TRUE) ELSE Str("x")]
\* {c: 'y'}
DataC == [k \in {"c"} |-> Str("y")]
\* {d: Buffer.from([1])}
DataBuf == [k \in {"d"} |-> Buf]

\* {a: 1, constructor: 'x'}: a field named as a property every object inherits
DataConstructor == [k \in {"a", "constructor"} |-> IF k = "a" THEN Num("1") ELSE Str("x")]

\* {c: 'z'}
PatchC == [k \in {"c"} |-> Str("z")]
\* {b: false}
PatchB == [k \in {"b"} |-> Bool(FALSE)]
\* {_id: '0_p'}: a patch that names the _id of a record
PatchId == [k \in {"_id"} |-> Str(generateId(0, "p"))]
\* {_createdAt: 'T9'}
PatchCreatedAt == [k \in {"_createdAt"} |-> Str("T9")]
\* {_updatedAt: 'T9'}
PatchUpdatedAt == [k \in {"_updatedAt"} |-> Str("T9")]

\* {_id: id}
QueryId(id) == [k \in {"_id"} |-> Str(id)]
\* {c: 'x'}
QueryC == [k \in {"c"} |-> Str("x")]
\* {b: true}
QueryB == [k \in {"b"} |-> Bool(TRUE)]
\* {_id: id, c: 'x'}
QueryIdC(id) == Spread(QueryId(id), QueryC)

\* the ids of the records inserted while the clock reads 0
QueryIds == {generateId(0, r) : r \in Random}

Inputs == {DataABC, DataC, DataBuf}
Patches == {PatchC, PatchId, PatchCreatedAt}
Queries ==
    {EmptyObject, QueryC, QueryB} \cup {QueryId(id) : id \in QueryIds}
        \cup {QueryIdC(id) : id \in QueryIds}

SmallQueries == {EmptyObject, QueryId(generateId(0, "p"))}
RawStatements == {InvalidSql, SelectSql}

\* type tags in lower case: the words the mapper looks for, words that mention
\* two of them, and words that mention none
MapperWords ==
    {<<"s", "t", "r", "i", "n", "g">>,
     <<"t", "e", "x", "t">>,
     <<"e", "m", "a", "i", "l">>,
     <<"u", "r", "l">>,
     <<"u", "u", "i", "d">>,
     <<"c", "h", "a", "r">>,
     <<"v", "a", "r", "c", "h", "a", "r">>,
     <<"n", "u", "m", "b", "e", "r">>,
     <<"n", "u", "m", "b", "e", "r", "i", "n", "t">>,
     <<"p", "r", "i", "n", "t", "n", "u", "m", "b", "e", "r">>,
     <<"b", "o", "o", "l", "e", "a", "n">>,
     <<"d", "a", "t", "e">>,
     <<"d", "a", "t", "e", "t", "i", "m", "e">>,
     <<"b", "l", "o", "b">>,
     <<"b", "u", "f", "f", "e", "r">>,
     <<"i", "n", "t", "e", "g", "e", "r">>,
     <<"i", "n", "t">>,
     <<"f", "l", "o", "a", "t">>,
     <<"j", "s", "o", "n">>,
     <<>>,
     <<"s", "t", "r", "i", "n", "g", "n", "u", "m", "b", "e", "r">>,
     <<"b", "o", "o", "l", "e", "a", "n", "n", "u", "m", "b", "e", "r">>,
     <<"d", "a", "t", "e", "b", "o", "o", "l", "e", "a", "n">>,
     <<"b", "l", "o", "b", "d", "a", "t", "e">>,
     <<"b", "u", "f", "f", "e", "r", "b", "l", "o", "b">>}

\* a tag written in lower case, in upper case, or capitalized
LetterCases == {"lower", "upper", "capitalized"}

Cased(word, case) ==
    CASE case = "lower" -> word
      [] case = "upper" -> toUpperCase(word)
      [] OTHER -> [i \in 1..Len(word) |-> IF i = 1 THEN toUpperCaseChar(word[i]) ELSE word[i]]

\* the schema type of a word: bare, or a descriptor {type: tag}
Typed(word, case, structured) ==
    IF structured THEN Descriptor(Cased(word, case)) ELSE Tag(Cased(word, case))

\* {a: type}
SchemaOf(type) == [present |-> TRUE, definition |-> [k \in {"a"} |-> type]]

(***************************************************************************)
(* Specifications.                                                         *)
(***************************************************************************)
\* every operation of the store, each call awaited
Next ==
    \/ Tick
    \/ BeforeTable /\ setSchema(SchemaUpper)
    \/ OutsideTransaction /\ connect
    \/ disconnect
    \/ set(DataC)
    \/ \E query \in SmallQueries : get(query)
    \/ \E query \in SmallQueries : getOne(query)
    \/ \E query \in SmallQueries : exists(query)
    \/ \E query \in SmallQueries : count(query)
    \/ \E query \in SmallQueries : update(query, PatchC)
    \/ \E query \in SmallQueries : delete(query)
    \/ clear
    \/ drop
    \/ vacuum
    \/ analyze
    \/ beginTransaction
    \/ commit
    \/ rollback
    \/ \E sql \in RawStatements : executeRaw(sql)
    \/ \E sql \in RawStatements : prepare(sql)

Spec == Init /\ [][Next]_vars

\* inserts, reads, updates and deletes on a store that stays connected
NextCrud ==
    \/ Tick
    \/ BeforeTable /\ \E s \in Schemas : setSchema(s)
    \/ OutsideTransaction /\ connect
    \/ \E data \in Inputs : set(data)
    \/ \E query \in Queries : get(query)
    \/ \E query \in Queries : getOne(query)
    \/ \E query \in Queries : count(query)
    \/ \E query \in Queries, data \in Patches : update(query, data)
    \/ \E query \in Queries : delete(query)
    \/ clear

SpecCrud == Init /\ [][NextCrud]_vars

\* reads of a table in which a raw statement has overwritten a payload
NextRaw ==
    \/ BeforeTable /\ \E s \in Schemas : setSchema(s)
    \/ OutsideTransaction /\ connect
    \/ \E data \in Inputs : set(data)
    \/ \E i \in 1..MaxRows : executeRaw(CorruptSql(i))
    \/ \E query \in Queries : get(query)
    \/ \E query \in Queries : getOne(query)

SpecRaw == Init /\ [][NextRaw]_vars

\* updates and deletes that the caller does not await
NextAsync ==
    \/ BeforeTable /\ setSchema(SchemaLower)
    \/ OutsideTransaction /\ connect
    \/ disconnect
    \/ set(DataABC)
    \/ \E data \in {PatchC, PatchB} : updateCall(EmptyObject, data)
    \/ deleteCall(QueryC)
    \/ resume

SpecAsync == Init /\ [][NextAsync]_vars

\* a schema attached at any time, also to a store that is connected
NextSchema ==
    \/ \E s \in {SchemaUpper, SchemaLower} : setSchema(s)
    \/ OutsideTransaction /\ connect
    \/ disconnect
    \/ \E data \in {DataABC, DataC} : set(data)
    \/ \E query \in {EmptyObject, QueryB} : get(query)
    \/ \E query \in {EmptyObject, QueryB}, data \in {PatchC} : update(query, data)
    \/ \E query \in {QueryB} : delete(query)

SpecSchema == Init /\ [][NextSchema]_vars

\* two stores on one file, each with its own table
NextFile ==
    \/ OutsideTransaction /\ connect
    \/ disconnect
    \/ set(DataC)
    \/ drop
    \/ beginTransaction
    \/ commit
    \/ rollback
    \/ otherConnect
    \/ otherDrop

SpecFile == Init /\ [][NextFile]_vars

\* connect called again, also inside an open transaction
NextReconnect ==
    \/ connect
    \/ disconnect
    \/ set(DataC)
    \/ get(EmptyObject)
    \/ clear
    \/ drop
    \/ beginTransaction
    \/ commit
    \/ rollback
    \/ finalize

SpecReconnect == Init /\ [][NextReconnect]_vars

\* multi-row updates and deletes between beginTransaction and commit or rollback
NextTransaction ==
    \/ BeforeTable /\ setSchema(SchemaLower)
    \/ OutsideTransaction /\ connect
    \/ disconnect
    \/ \E data \in {DataABC, DataC} : set(data)
    \/ \E query \in {EmptyObject, QueryC}, data \in {PatchC, PatchId} : update(query, data)
    \/ \E query \in {EmptyObject, QueryC} : delete(query)
    \/ beginTransaction
    \/ commit
    \/ rollback

SpecTransaction == Init /\ [][NextTransaction]_vars

\* inserts and updates while the clock advances, with patches that name the
\* reserved fields
ClockPatches == {PatchUpdatedAt, PatchCreatedAt, PatchId}

NextClock ==
    \/ Tick
    \/ BeforeTable /\ setSchema(SchemaLower)
    \/ OutsideTransaction /\ connect
    \/ set(DataC)
    \/ \E query \in SmallQueries, data \in ClockPatches : update(query, data)
    \/ \E query \in SmallQueries : delete(query)

SpecClock == Init /\ [][NextClock]_vars

\* counts and existence tests on every table a caller can produce, raw statements
\* included
NextCount ==
    \/ BeforeTable /\ \E s \in Schemas : setSchema(s)
    \/ OutsideTransaction /\ connect
    \/ \E data \in Inputs : set(data)
    \/ \E i \in 1..MaxRows : executeRaw(CorruptSql(i))
    \/ \E query \in Queries : count(query)
    \/ \E query \in Queries : exists(query)
    \/ \E query \in Queries : delete(query)

SpecCount == Init /\ [][NextCount]_vars

\* updates and deletes whose returned count a caller compares with the table
NextReturn ==
    \/ BeforeTable /\ setSchema(SchemaLower)
    \/ OutsideTransaction /\ connect
    \/ \E data \in {DataABC, DataC} : set(data)
    \/ \E query \in {EmptyObject, QueryC}, data \in {PatchC, PatchId} : update(query, data)
    \/ \E query \in {EmptyObject, QueryC} : delete(query)
    \/ count(EmptyObject)

SpecReturn == Init /\ [][NextReturn]_vars

\* the type mapper applied by connect to a schema of one field, the field's type
\* drawn from the tags
InitMapper ==
    /\ db = FALSE
    /\ \E word \in MapperWords, case \in LetterCases, structured \in BOOLEAN :
           schema = SchemaOf(Typed(word, case, structured))
    /\ dbType = "sql"
    /\ tableExists = FALSE
    /\ columns = <<>>
    /\ table = <<>>
    /\ txn = NoTransaction
    /\ now = 0
    /\ pending = <<>>
    /\ last = Outcome("setSchema", "none")
    /\ inserted = <<>>
    /\ indexes = <<>>
    /\ abandoned = FALSE

NextMapper ==
    \/ OutsideTransaction /\ connect
    \/ disconnect

SpecMapper == InitMapper /\ [][NextMapper]_vars

\* records split between schema columns and extras
SplitInputs == {DataABC, DataC, DataConstructor}

NextSplit ==
    \/ BeforeTable /\ \E s \in Schemas : setSchema(s)
    \/ OutsideTransaction /\ connect
    \/ \E data \in SplitInputs : set(data)
    \/ \E query \in {EmptyObject, QueryC}, data \in SplitInputs : update(query, data)
    \/ \E query \in {EmptyObject, QueryC} : get(query)

SpecSplit == Init /\ [][NextSplit]_vars

\* disconnect while a call is suspended at its await
NextDisconnect ==
    \/ OutsideTransaction /\ connect
    \/ disconnect
    \/ set(DataABC)
    \/ updateCall(QueryC, PatchC)
    \/ deleteCall(QueryC)
    \/ countCall(QueryC)
    \/ existsCall(QueryC)
    \/ getOneCall(QueryC)
    \/ resume

SpecDisconnect == Init /\ [][NextDisconnect]_vars

\* the calls the legacy driver has too, on a store that is given no schema
LegacyQueries == SmallQueries \cup {QueryC}

NextLegacy ==
    \/ Tick
    \/ OutsideTransaction /\ connect
    \/ \E data \in Inputs : set(data)
    \/ \E query \in LegacyQueries : get(query)
    \/ \E query \in LegacyQueries : getOne(query)
    \/ \E query \in LegacyQueries : exists(query)
    \/ \E query \in LegacyQueries : count(query)
    \/ \E query \in LegacyQueries, data \in Patches : update(query, data)
    \/ \E query \in LegacyQueries : delete(query)
    \/ clear

SpecLegacy == Init /\ [][NextLegacy]_vars

(***************************************************************************)
(* Properties.  The records a caller reads are getRecords (get) and        *)
(* getOneRecord (getOne) of the table as it stands.                        *)
(***************************************************************************)
\* get({}) of the table, when get does not throw
allRecords(tbl) == getRecords(tbl, EmptyObject)

\* the positions of the rows whose record matches the query
matchedRows(tbl, query) ==
    {i \in 1..Len(tbl) : matchesQuery(allRecords(tbl)[i], query)}

\* C1: in both storage modes, every record matched by update(filter, patch) reads
\* back with the _id and _createdAt it had before, also when the patch has an _id
\* or _createdAt key, and every other patch field reads back as the patch's value.
C1_UpdatePreservesIdAndCreatedAt ==
    [][\A query \in Queries, data \in Patches :
          (update(query, data) /\ last'.err = "none") =>
              \A i \in matchedRows(table, query) :
                  LET before == allRecords(table)[i]
                      after == allRecords(table')[i]
                  IN  /\ Field(after, "_id") = Field(before, "_id")
                      /\ Field(after, "_createdAt") = Field(before, "_createdAt")
                      /\ \A k \in (DOMAIN data) \ {"_id", "_createdAt"} :
                            Field(after, k) = data[k]]_vars

\* an update whose patch has an _id key has been applied to a record
C1_PatchedIdWitness ==
    /\ last = Outcome("update", "none")
    /\ \E i \in 1..Len(table) : Field(allRecords(table)[i], "_id") # Str(table[i]._id)

\* C2: on a connected store, after any inserts, updates, deletes and clears, no two
\* records that get({}) returns have the same _id, in both storage modes.
C2_IdsUnique ==
    (db /\ tableExists) =>
        \A i, j \in 1..Len(table) :
            i # j => Field(allRecords(table)[i], "_id") # Field(allRecords(table)[j], "_id")

\* two records are stored and an update has run
C2_TwoRecordsWitness == db /\ Len(table) = 2 /\ last = Outcome("update", "none")

\* the schema declares the field with a boolean type, in any letter case
BooleanField(k) ==
    /\ schema.present
    /\ k \in DOMAIN schema.definition
    /\ toUpperCase(DeclaredType(k)) = <<"B", "O", "O", "L", "E", "A", "N">>

\* the row of the given _id
rowOf(tbl, id) == tbl[CHOOSE i \in 1..Len(tbl) : tbl[i]._id = id]

\* C3: in hybrid mode, a true/false inserted into a field the schema declares
\* boolean (bare tag or descriptor, any letter case) is stored as 1/0 and get and
\* getOne return it as the boolean, not as a number.
C3_BooleanRoundTrip ==
    (db /\ tableExists /\ SqlMode) =>
        \A id \in DOMAIN inserted :
            \A k \in DOMAIN inserted[id] :
                (BooleanField(k) /\ inserted[id][k].t = "boolean") =>
                    /\ rowOf(table, id).cols[k] = prepareValue(inserted[id][k])
                    /\ \E r \in {allRecords(table)[i] : i \in 1..Len(table)} :
                          Field(r, "_id") = Str(id) /\ Field(r, k) = inserted[id][k]
                    /\ getOneRecord(table, QueryId(id)) # <<>>
                    /\ Field(getOneRecord(table, QueryId(id))[1], k) = inserted[id][k]

\* a boolean has been inserted into a field declared boolean
C3_BooleanInsertedWitness ==
    /\ db /\ tableExists /\ SqlMode
    /\ \E id \in DOMAIN inserted :
          BooleanField("b") /\ Field(inserted[id], "b") = Bool(TRUE)

\* C4: for every filter and table, getOne(filter) is null iff get(filter) is empty,
\* and a record getOne returns satisfies every entry of the filter, also when the
\* filter has an _id together with other fields.
C4_GetOneAgreesWithGet ==
    (db /\ tableExists) =>
        \A query \in Queries :
            /\ getOneRecord(table, query) = <<>> <=> getRecords(table, query) = <<>>
            /\ getOneRecord(table, query) # <<>> =>
                  matchesQuery(getOneRecord(table, query)[1], query)

\* getOne has been called on a table that holds a record
C4_GetOneWitness == db /\ table # <<>> /\ last = Outcome("getOne", "none")

\* C5: in both storage modes, get(filter) returns exactly the stored records whose
\* fields strictly equal every filter entry (booleans in schema columns included):
\* an inserted record that matches is returned, one that does not is not, and the
\* empty filter returns every record.
C5_GetReturnsExactlyTheMatches ==
    (db /\ tableExists) =>
        /\ Len(getRecords(table, EmptyObject)) = Len(table)
        /\ \A query \in Queries : \A id \in DOMAIN inserted :
              matchesQuery(inserted[id], query) <=>
                  \E i \in 1..Len(getRecords(table, query)) :
                      Field(getRecords(table, query)[i], "_id") = Str(id)

\* get has been called on a table that holds an inserted record with a boolean
C5_GetWitness ==
    /\ db /\ last = Outcome("get", "none")
    /\ \E id \in DOMAIN inserted : matchesQuery(inserted[id], QueryB)

\* C6: with no schema, getOne({_id: id}) of an inserted record returns the record
\* set returned (the data and the reserved fields), also after inserts, updates and
\* deletes aimed at other records.
C6_SchemalessRoundTrip ==
    (db /\ tableExists /\ ~schema.present) =>
        \A id \in DOMAIN inserted :
            getOneRecord(table, QueryId(id)) = <<inserted[id]>>

\* with no schema, a record is still as inserted after an update of another one
C6_OtherUpdatedWitness ==
    /\ db /\ ~schema.present /\ last = Outcome("update", "none")
    /\ Len(table) = 2 /\ Cardinality(DOMAIN inserted) = 1

\* C7: when the table holds a record X, after delete({_id: X}) returns, getOne({_id: X})
\* is null and count({}) is one less than before, in both storage modes and whatever
\* updates X went through.
C7_DeleteByIdRemoves ==
    [][\A id \in QueryIds :
          (/\ getOneRecord(table, QueryId(id)) # <<>>
           /\ delete(QueryId(id))
           /\ last'.err = "none") =>
              /\ getOneRecord(table', QueryId(id)) = <<>>
              /\ countResult(table', EmptyObject) = countResult(table, EmptyObject) - 1]_vars

\* a delete has run on a record that an update had patched
C7_DeleteAfterUpdateWitness ==
    /\ db /\ last = Outcome("delete", "none")
    /\ \E i \in 1..Len(table) : table[i]._updatedAt # table[i]._createdAt

Operations ==
    {"set", "get", "getOne", "update", "delete", "exists", "count", "clear", "drop", "vacuum",
     "analyze", "beginTransaction", "commit", "rollback", "executeRaw", "prepare"}

\* C8: while the store is disconnected (before the first connect, after disconnect)
\* every operation fails with NotConnected and the stored table, its columns and the
\* open transaction stay as they are; once connected again no operation fails for
\* want of a connection.
C8_DisconnectedOperationsFail ==
    [][/\ (~db /\ ~db') => UNCHANGED <<abandoned, indexes, tableExists, columns, table, txn>>
       /\ (last' # last /\ last'.op \in Operations /\ ~db) => last'.err = "NotConnected"
       /\ (last' # last /\ last'.op \in Operations /\ db) =>
             last'.err \notin {"NotConnected", "TypeError"}]_vars

\* an insert has failed on a store disconnected after records were stored
C8_DisconnectedWitness == ~db /\ table # <<>> /\ last = Outcome("set", "NotConnected")

\* the table after a whole call runs on tbl with nothing in between
serial(tbl, call) ==
    IF call.op = "update"
    THEN updateRows(tbl, getRecords(tbl, call.query), call.data, toISOString(now))
    ELSE deleteRows(tbl, getRecords(tbl, call.query))

\* C9: two operations issued without awaiting the first do not overlap: when two
\* calls were issued on the same table and the first has run, the table the second
\* leaves is the result of running the two one after the other in some order, so
\* that neither patch is lost.
C9_UnawaitedCallsAreSerial ==
    [][(resume /\ last'.err = "none") =>
          LET second == Head(pending)
          IN  (/\ Len(second.ahead) = 1
               /\ second.ahead[1].seen = second.seen
               /\ table = serial(second.seen, second.ahead[1])) =>
                  table' \in {serial(table, second),
                              serial(serial(second.seen, second), second.ahead[1])}]_vars

\* two updates with different patches are suspended, both issued on the same table
C9_TwoCallsWitness ==
    /\ Len(pending) = 2
    /\ pending[1].op = "update" /\ pending[2].op = "update"
    /\ pending[1].data # pending[2].data
    /\ pending[1].records # <<>> /\ pending[2].seen = pending[1].seen

\* C10: a row whose _extras (hybrid) or _data (no schema) text is not JSON does not
\* make get or getOne throw: the row reads as if the payload were empty and the
\* other rows are returned as well.
C10_CorruptPayloadReadsSoft ==
    (db /\ tableExists) =>
        /\ getError(tableExists, table) = "none"
        /\ \A query \in Queries : getOneError(tableExists, table, query) = "none"
        /\ Len(allRecords(table)) = Len(table)
        /\ \A i \in 1..Len(table) :
              ~JSONparses(table[i].payload) =>
                  DOMAIN allRecords(table)[i] \subseteq (DOMAIN columns) \cup ReservedKeys

\* a read has run on a table with a row whose payload is not JSON
C10_CorruptRowWitness ==
    /\ db /\ last.op \in {"get", "getOne"}
    /\ \E i \in 1..Len(table) : ~JSONparses(table[i].payload)

\* what get({}) does on the table as it stands: the error it throws or the records
readAll ==
    [err |-> getError(tableExists, table),
     records |-> IF getError(tableExists, table) = "none" THEN allRecords(table) ELSE <<>>]

\* C11: from a successful connect until disconnect, the storage mode and the schema
\* that set, get, update and delete use stay those of connect time; a setSchema on
\* a connected store does not change how the rows are written or read.
C11_ModeFixedWhileConnected ==
    [][(db /\ db') =>
          /\ SqlMode' = SqlMode
          /\ schema' = schema
          /\ (tableExists /\ tableExists' /\ table' = table) => readAll' = readAll]_vars

\* setSchema has been called on a connected store that holds a record
C11_SetSchemaConnectedWitness == db /\ table # <<>> /\ last = Outcome("setSchema", "none")

\* the store's table has an index on _createdAt and one on _updatedAt
Indexed(idx) ==
    /\ {"idx_createdAt", "idx_updatedAt"} \subseteq DOMAIN idx
    /\ \A name \in {"idx_createdAt", "idx_updatedAt"} : idx[name] = tableName

\* C12: after every successful connect the store's own table has an index on
\* _createdAt and one on _updatedAt, also when a store for another table of the
\* same file connected earlier and when connect follows a drop.
C12_IndexesAfterConnect ==
    [][(connect /\ last'.err = "none") => Indexed(indexes')]_vars

\* connect has run after a drop on a file where another store has connected
C12_ConnectWitness ==
    /\ db /\ last = Outcome("connect", "none")
    /\ \E name \in DOMAIN indexes : indexes[name] = otherTable

\* C13: connect is idempotent: run again on a connected store, or after a disconnect,
\* it raises no error, creates no second table or index, and leaves every row that
\* exists as it is.
C13_ConnectIdempotent ==
    [][(connect /\ tableExists) =>
          /\ last'.err = "none"
          /\ tableExists' /\ columns' = columns
          /\ DOMAIN indexes \subseteq DOMAIN indexes'
          /\ \A name \in DOMAIN indexes : indexes'[name] = indexes[name]
          /\ table' = table]_vars

\* connect has run again on a store that holds a record
C13_ReconnectWitness ==
    /\ db /\ table # <<>> /\ last = Outcome("connect", "none")

\* C14: an update or delete of several rows between beginTransaction and commit or
\* rollback is all-or-nothing: a rollback puts the table back as it stood at
\* beginTransaction, a commit keeps the table the transaction wrote, and in that
\* table every row an update matched carries the patch and no row a delete matched
\* is left.
C14_TransactionAllOrNothing ==
    [][/\ (rollback /\ last'.err = "none") =>
              /\ table' = txn.table
              /\ tableExists' = txn.tableExists /\ columns' = txn.columns
       /\ (commit /\ last'.err = "none") => table' = table
       /\ \A query \in {EmptyObject, QueryC} :
            /\ \A data \in {PatchC, PatchId} :
                 (txn.active /\ update(query, data) /\ last'.err = "none") =>
                     \A i \in matchedRows(table, query) :
                         \A k \in (DOMAIN data) \ ReservedKeys :
                             Field(allRecords(table')[i], k) = data[k]
            /\ (txn.active /\ delete(query) /\ last'.err = "none") =>
                   matchedRows(table', query) = {}]_vars

\* an update has matched two rows inside a transaction and written the table
C14_TwoRowsWitness ==
    /\ txn.active /\ Len(table) = 2
    /\ last = Outcome("update", "none")
    /\ table # txn.table /\ Len(txn.table) = 2

\* the clock reading an ISO text stands for (9 for the text of the patches)
clockOf(value) == CHOOSE n \in 0..9 : value = Str(toISOString(n))

\* C15: a record is created with _updatedAt equal to _createdAt; every successful
\* update sets the _updatedAt of each record it matched to the clock of the update,
\* also when the patch has an _updatedAt key; the clock never going back, a record's
\* _updatedAt never decreases and is never earlier than its _createdAt; and the
\* _updatedAt column of a row equals the _updatedAt of the record read from it.
C15_UpdatedAtFollowsClock ==
    [][/\ (set(DataC) /\ last'.err = "none") =>
              LET record == allRecords(table')[Len(table')]
              IN  Field(record, "_updatedAt") = Field(record, "_createdAt")
       /\ \A query \in SmallQueries, data \in ClockPatches :
              (update(query, data) /\ last'.err = "none") =>
                  /\ \A i \in matchedRows(table, query) :
                         Field(allRecords(table')[i], "_updatedAt") = Str(toISOString(now))
                  /\ \A i \in 1..Len(table) :
                         LET before == allRecords(table)[i]
                             after == allRecords(table')[i]
                         IN  /\ clockOf(Field(after, "_updatedAt"))
                                    >= clockOf(Field(before, "_updatedAt"))
                             /\ clockOf(Field(after, "_updatedAt"))
                                    >= clockOf(Field(after, "_createdAt"))
                             /\ Field(after, "_updatedAt") = Str(table'[i]._updatedAt)]_vars

\* a record created at clock 0 has been updated at clock 1
C15_UpdatedLaterWitness ==
    /\ last = Outcome("update", "none") /\ now = 1
    /\ \E i \in 1..Len(table) : table[i]._createdAt = "T0" /\ table[i]._updatedAt = "T1"

carries(tbl, i, data) ==
    \A k \in (DOMAIN data) \ ReservedKeys : Field(allRecords(tbl)[i], k) = data[k]

\* C17: update and delete return the number of rows they changed or removed: when
\* delete(filter) returns n, count({}) is n less than before and query(filter) is
\* empty; when update(filter, patch) returns n, the patch is carried by n of the rows
\* the filter matched and the other rows are as before.
C17_ReturnedCountIsRowsChanged ==
    [][\A query \in {EmptyObject, QueryC} :
          /\ (delete(query) /\ last'.err = "none") =>
                 /\ countResult(table, EmptyObject) - countResult(table', EmptyObject)
                        = deleteResult(getRecords(table, query))
                 /\ getRecords(table', query) = <<>>
          /\ \A data \in {PatchC, PatchId} :
                 (update(query, data) /\ last'.err = "none") =>
                     /\ Cardinality({i \in matchedRows(table, query) :
                                        table'[i]._updatedAt = toISOString(now)
                                            /\ carries(table', i, data)})
                            = updateResult(getRecords(table, query))
                     /\ \A i \in (1..Len(table)) \ matchedRows(table, query) :
                            table'[i] = table[i]]_vars

\* an update has returned 2 and both rows carry its patch
C17_TwoRowsReturnedWitness ==
    /\ last = Outcome("update", "none")
    /\ Len(table) = 2 /\ \A i \in 1..2 : carries(table, i, PatchC)

\* a word of lower-case letters mentions a keyword
mentions(word, keyword) ==
    \E i \in 1..(Len(word) - Len(keyword) + 1) :
        \A j \in 1..Len(keyword) : word[i + j - 1] = keyword[j]

\* the column type the rules give a tag, first rule that matches
ruleType(word) ==
    IF \E keyword \in {<<"s", "t", "r", "i", "n", "g">>, <<"t", "e", "x", "t">>,
                       <<"e", "m", "a", "i", "l">>, <<"u", "r", "l">>,
                       <<"u", "u", "i", "d">>, <<"c", "h", "a", "r">>} :
           mentions(word, keyword)
    THEN "TEXT"
    ELSE IF mentions(word, <<"n", "u", "m", "b", "e", "r">>)
    THEN (IF mentions(word, <<"i", "n", "t">>) THEN "INTEGER" ELSE "REAL")
    ELSE IF mentions(word, <<"b", "o", "o", "l", "e", "a", "n">>) THEN "INTEGER"
    ELSE IF mentions(word, <<"d", "a", "t", "e">>) THEN "TEXT"
    ELSE IF \E keyword \in {<<"b", "l", "o", "b">>, <<"b", "u", "f", "f", "e", "r">>} :
               mentions(word, keyword)
    THEN "BLOB"
    ELSE "TEXT"

\* C18: the type mapper gives every type tag, in any letter case, bare or inside a
\* descriptor, one of TEXT, INTEGER, REAL and BLOB: the type of the first rule that
\* matches (STRING, TEXT, EMAIL, URL, UUID, CHAR: TEXT; NUMBER: INTEGER with INT,
\* else REAL; BOOLEAN: INTEGER; DATE: TEXT; BLOB, BUFFER: BLOB; else TEXT).
C18_TypeMapperRules ==
    \A word \in MapperWords, case \in LetterCases, structured \in BOOLEAN :
        (tableExists /\ schema = SchemaOf(Typed(word, case, structured))) =>
            /\ columns = [k \in {"a"} |-> ruleType(word)]
            /\ columns["a"] \in {"TEXT", "INTEGER", "REAL", "BLOB"}
            /\ last.err = "none"

\* connect has mapped a lower-case descriptor that mentions NUMBER and INT
C18_MappedWitness ==
    /\ tableExists
    /\ schema = SchemaOf(Descriptor(<<"n", "u", "m", "b", "e", "r", "i", "n", "t">>))
    /\ columns = [k \in {"a"} |-> "INTEGER"]

\* C19: with a schema, the split of a record puts every field that is not reserved
\* in exactly one output, the schema fields when its name is a key of the schema
\* definition and the extras when it is not, each with its value, and puts _id,
\* _createdAt and _updatedAt in neither; without a schema every field is an extra.
C19_SplitIsPartition ==
    [][\A data \in SplitInputs :
          (db /\ set(data)) =>
              LET record == newRecord(data, generateId(now, "p"), toISOString(now))
                  split == splitData(record)
                  declared == DOMAIN schema.definition
              IN  IF schema.present
                  THEN /\ DOMAIN split.schemaData = (DOMAIN data) \cap (declared \ ReservedKeys)
                       /\ DOMAIN split.extraData = (DOMAIN data) \ (declared \cup ReservedKeys)
                       /\ \A k \in DOMAIN split.schemaData : split.schemaData[k] = data[k]
                       /\ \A k \in DOMAIN split.extraData : split.extraData[k] = data[k]
                  ELSE split = [schemaData |-> EmptyObject, extraData |-> record]]_vars

\* set has split a record that has a schema field and an extra, and stored both
C19_SplitStoredWitness ==
    /\ SqlMode /\ last = Outcome("set", "none")
    /\ \E i \in 1..Len(table) :
          /\ table[i].cols["a"] = Num("1")
          /\ "c" \in DOMAIN JSONparse(table[i].payload)

\* C20: in hybrid mode every inserted record, also one without some of the schema's
\* fields or with extras alone, is read back by queryOne({_id}) with the fields and
\* values it was inserted with and the three reserved fields, none added and none
\* missing: the record insert returned.
C20_HybridRoundTrip ==
    (db /\ SqlMode /\ tableExists /\ HybridTable) =>
        \A id \in DOMAIN inserted :
            getOneRecord(table, QueryId(id)) = <<inserted[id]>>

\* a record of extras alone has been inserted in hybrid mode and read with getOne
C20_ExtrasOnlyReadWitness ==
    /\ db /\ SqlMode /\ HybridTable
    /\ last = Outcome("getOne", "none")
    /\ \E id \in DOMAIN inserted : DOMAIN inserted[id] = {"c"} \cup ReservedKeys

\* C21: update and delete leave every record the filter does not match as it was,
\* and update leaves every field of a matched record that the patch does not name,
\* _updatedAt apart, as it was, whether the field is held in a schema column or in
\* the extras.
C21_UpdateAndDeleteFrame ==
    [][\A query \in Queries :
          /\ \A data \in Patches :
                 (update(query, data) /\ last'.err = "none") =>
                     /\ \A i \in (1..Len(table)) \ matchedRows(table, query) :
                            table'[i] = table[i]
                     /\ \A i \in matchedRows(table, query) :
                            \A k \in (DOMAIN allRecords(table)[i])
                                        \ (DOMAIN data \cup {"_updatedAt"}) :
                                Field(allRecords(table')[i], k) = allRecords(table)[i][k]
          /\ (delete(query) /\ last'.err = "none") =>
                 \A i \in (1..Len(table)) \ matchedRows(table, query) :
                     \E j \in 1..Len(table') : table'[j] = table[i]]_vars

\* an update in hybrid mode has matched one of two records that have a schema
\* column and an extra the patch does not name
C21_OneOfTwoUpdatedWitness ==
    /\ SqlMode /\ HybridTable /\ Len(table) = 2
    /\ last = Outcome("update", "none")
    /\ table[1]._updatedAt # table[2]._updatedAt
    /\ \E i \in 1..2 : table[i].cols["a"] = Num("1") /\ table[i]._updatedAt = "T1"

\* C22: when disconnect runs after an update, delete, count, exists or getOne call
\* has started on the connected store and before it has completed, the call
\* completes or fails with the not-connected error, and with no other error.
C22_DisconnectWhilePending ==
    [][(resume /\ ~db) => last'.err \in {"none", "NotConnected"}]_vars

\* the store was disconnected while an update that read a record was suspended
C22_DisconnectedPendingWitness ==
    /\ ~db /\ last = Outcome("disconnect", "none")
    /\ pending # <<>> /\ Head(pending).op = "update" /\ Head(pending).records # <<>>

\* C23: with no schema attached the driver and the legacy schema-less driver are
\* equivalent: run on the same rows with the same arguments, ids and clock values,
\* each of insert, query, queryOne, update, delete, exists, count and clear returns
\* the same result and leaves the same rows in both.
C23_LegacyEquivalence ==
    [][(~schema.present /\ db /\ tableExists /\ last'.err = "none") =>
          /\ \A data \in Inputs :
                 set(data) =>
                     \E random \in Random :
                         LET id == generateId(now, random)
                             iso == toISOString(now)
                         IN  table' = Append(table,
                                             legacyNewRow(newRecord(data, id, iso), id, iso))
          /\ \A query \in LegacyQueries :
                 /\ (get(query) \/ getOne(query) \/ exists(query) \/ count(query)) =>
                        /\ legacyGetError(tableExists, table) = "none"
                        /\ getRecords(table, query) = legacyGetRecords(table, query)
                        /\ getOneRecord(table, query) = legacyGetOneRecord(table, query)
                        /\ countResult(table, query) = legacyCountResult(table, query)
                 /\ delete(query) =>
                        /\ table' = deleteRows(table, legacyGetRecords(table, query))
                        /\ deleteResult(getRecords(table, query))
                               = Len(legacyGetRecords(table, query))
                 /\ \A data \in Patches :
                        update(query, data) =>
                            /\ table' = legacyUpdateRows(table, legacyGetRecords(table, query),
                                                         data, toISOString(now))
                            /\ updateResult(getRecords(table, query))
                                   = Len(legacyGetRecords(table, query))
          /\ clear => table' = <<>>]_vars

\* with no schema attached, an update has written a record read from the table
C23_SchemalessUpdateWitness ==
    /\ ~schema.present /\ db /\ last = Outcome("update", "none")
    /\ \E i \in 1..Len(table) : table[i]._updatedAt = "T1" /\ table[i]._createdAt = "T0"

====
